---- MODULE Spec2Model ----
(***************************************************************************)
(* Finished-goods synchronisation cache of the inventory dashboard.        *)
(*                                                                         *)
(*   src/src/lib/indexeddb.ts                     FinishedGoodsDB          *)
(*   src/src/components/FinishedGoodsDataManager.tsx   lifecycle manager   *)
(*   src/src/components/inventory/FinishedGoodsPage.tsx useFinishedGoods   *)
(*                                                                         *)
(*   src/src/lib/idempiere-api.ts                       ERP fetch          *)
(*   src/src/app/api/test-db/route.ts                   sync proxy route   *)
(*   src/src/app/api/admin/{users,areas}/route.ts       admin handlers     *)
(*   src/unnamed/part_011                               usePagination      *)
(*                                                                         *)
(* Eight specifications over one set of variables:                         *)
(*   SpecStore    one caller drives the FinishedGoodsDB methods one after  *)
(*                the other with every argument and every storage fault;   *)
(*   Spec         the manager's effect handlers, Retry and the hook's      *)
(*                manual sync run as interleaved asynchronous tasks;       *)
(*   SpecSession  the manager's handlers with two users, a change of the   *)
(*                active user and the tab's visibility;                    *)
(*   SpecView     the manager's handlers with a mounted useFinishedGoods   *)
(*                that re-reads the store when a sync is announced;        *)
(*   SpecProxy    one request through the sync route and the ERP fetch;    *)
(*   SpecAdmin    one request through an admin handler;                    *)
(*   SpecPage     usePagination, call by call, under changing data;        *)
(*   SpecCascade  PATCH /api/admin/areas, one database call per step.      *)
(* An action is one JavaScript job: an event callback together with the    *)
(* promise continuations it wakes, up to the next await.                   *)
(***************************************************************************)
EXTENDS Integers, Sequences, FiniteSets, TLC

(* ------------------------------ bounds -------------------------------- *)

MaxRecords == 2
MaxTime == 3
MaxStoreTime == 1
MaxLeak == 1
MaxTasks == 2

(* One clock tick is 30 minutes, in milliseconds (Date.getTime()).         *)
TickMs == 30 * 60 * 1000

(* ------------------------------ strings ------------------------------- *)

Chars == {"a", "A", "b", "B"}

ToLowerChar(c) ==
    CASE c = "A" -> "a"
      [] c = "B" -> "b"
      [] OTHER -> c

toLowerCase(s) == [i \in 1..Len(s) |-> ToLowerChar(s[i])]

includes(s, t) ==
    \E i \in 0..(Len(s) - Len(t)) : SubSeq(s, i + 1, i + Len(t)) = t

(* ------------------------------ records ------------------------------- *)

P1 == [id |-> 1, product_code |-> <<"a", "B">>, product_name |-> <<"B", "a">>,
       catname |-> "X", catname_value |-> 10]
P2 == [id |-> 2, product_code |-> <<"b">>, product_name |-> <<"A", "a">>,
       catname |-> "X", catname_value |-> 10]
P3 == [id |-> 1, product_code |-> <<"A">>, product_name |-> <<>>,
       catname |-> "Y", catname_value |-> 20]

FinishedGood == {P1, P2, P3}

CategoryIds == {10, 20, 30}

RecordLists == UNION {[1..n -> FinishedGood] : n \in 0..MaxRecords}

SearchTerms == UNION {[1..n -> Chars] : n \in 0..2}

(* ------------------------------ the store ----------------------------- *)

(* The three object stores; each is a set of records with distinct keys.   *)
EmptyDb == [finished_goods |-> {}, categories |-> {}, metadata |-> {}]

KeyOf(store, v) == IF store = "metadata" THEN v.key ELSE v.id

RECURSIVE extractFrom(_, _, _)
extractFrom(records, i, categoryMap) ==
    IF i > Len(records) THEN categoryMap
    ELSE LET record == records[i]
             categoryId == record.catname_value
             known == \E c \in categoryMap : c.id = categoryId
             withNew == IF known THEN categoryMap
                        ELSE categoryMap \cup
                             {[id |-> categoryId, name |-> record.catname,
                               product_count |-> 0]}
             bumped == {IF c.id = categoryId
                        THEN [c EXCEPT !.product_count = @ + 1]
                        ELSE c : c \in withNew}
         IN extractFrom(records, i + 1, bumped)

extractCategories_perRecord(records) ==
    {[id |-> records[i].catname_value, name |-> records[i].catname,
      product_count |-> 1] : i \in 1..Len(records)}

extractCategories(records) == extractFrom(records, 1, {})

RECURSIVE SetToSeq(_)
SetToSeq(S) ==
    IF S = {} THEN <<>>
    ELSE LET x == CHOOSE y \in S : TRUE IN <<x>> \o SetToSeq(S \ {x})

ClearReq(store) == [op |-> "clear", store |-> store]
AddReq(store, v) == [op |-> "add", store |-> store, value |-> v]
PutReq(store, v) == [op |-> "put", store |-> store, value |-> v]

(* One request against the transaction's working copy. *)
ApplyRequest(work, req) ==
    CASE req.op = "clear" -> [ok |-> TRUE, work |-> [work EXCEPT ![req.store] = {}]]
      [] req.op = "add" ->
           IF \E v \in work[req.store] : KeyOf(req.store, v) = KeyOf(req.store, req.value)
           THEN [ok |-> FALSE, work |-> work]
           ELSE [ok |-> TRUE,
                 work |-> [work EXCEPT ![req.store] = @ \cup {req.value}]]
      [] OTHER ->
           [ok |-> TRUE,
            work |-> [work EXCEPT ![req.store] =
                        {v \in @ : KeyOf(req.store, v) # KeyOf(req.store, req.value)}
                        \cup {req.value}]]

(* The requests of one transaction in order; request number failAt meets a *)
(* storage error; an add on an existing key meets a ConstraintError.       *)
RECURSIVE RunRequests(_, _, _, _)
RunRequests(work, reqs, i, failAt) ==
    IF i > Len(reqs) THEN [ok |-> TRUE, work |-> work]
    ELSE IF i = failAt THEN [ok |-> FALSE, work |-> work]
    ELSE LET r == ApplyRequest(work, reqs[i])
         IN IF r.ok THEN RunRequests(r.work, reqs, i + 1, failAt)
            ELSE [ok |-> FALSE, work |-> r.work]

(* The outcome of a readwrite transaction over the three stores, as the    *)
(* promise built on it sees it: "ok" from oncomplete, "error" from an      *)
(* error event (a failed request aborts the transaction and bubbles to     *)
(* transaction.onerror), "never" when the transaction aborts at commit     *)
(* (failAt = -1): only an abort event fires and no handler listens to it.  *)
(* An aborted transaction leaves no trace in the stores.                   *)
Transaction(d, reqs, failAt) ==
    IF failAt = -1 THEN [result |-> "never", db |-> d]
    ELSE LET run == RunRequests(d, reqs, 1, failAt)
         IN IF run.ok THEN [result |-> "ok", db |-> run.work]
            ELSE [result |-> "error", db |-> d]

(* The same requests outside one transaction: what is written stays.       *)
TransactionPerRequest(d, reqs, failAt) ==
    IF failAt = -1 THEN [result |-> "never", db |-> d]
    ELSE LET run == RunRequests(d, reqs, 1, failAt)
         IN [result |-> IF run.ok THEN "ok" ELSE "error", db |-> run.work]

(* The categories store is not cleared before the new ones are added. *)
storeRequests_keepCategories(records, t) ==
    <<ClearReq("finished_goods")>>
    \o [i \in 1..Len(records) |-> AddReq("finished_goods", records[i])]
    \o LET categories == SetToSeq(extractCategories(records))
       IN [i \in 1..Len(categories) |-> PutReq("categories", categories[i])]
    \o <<PutReq("metadata",
                [key |-> "last_sync", value |-> t, record_count |-> Len(records)])>>

storeRequests(records, t) ==
    <<ClearReq("finished_goods"), ClearReq("categories")>>
    \o [i \in 1..Len(records) |-> AddReq("finished_goods", records[i])]
    \o LET categories == SetToSeq(extractCategories(records))
       IN [i \in 1..Len(categories) |-> AddReq("categories", categories[i])]
    \o <<PutReq("metadata",
                [key |-> "last_sync", value |-> t, record_count |-> Len(records)])>>

storeFinishedGoods_split(d, records, t, failAt) ==
    TransactionPerRequest(d, storeRequests(records, t), failAt)

storeFinishedGoods_merge(d, records, t, failAt) ==
    Transaction(d, Tail(Tail(storeRequests(records, t))), failAt)

storeFinishedGoods(d, records, t, failAt) ==
    Transaction(d, storeRequests(records, t), failAt)

clearRequests ==
    <<ClearReq("finished_goods"), ClearReq("categories"), ClearReq("metadata")>>

clearAllData_keepMeta(d, failAt) == Transaction(d, SubSeq(clearRequests, 1, 2), failAt)

clearAllData(d, failAt) == Transaction(d, clearRequests, failAt)

getFinishedGoods(d) == d.finished_goods

getFinishedGoodsByCategory(d, categoryId) ==
    {g \in d.finished_goods : g.catname_value = categoryId}

getCategories(d) == d.categories

(* The set holding the last_sync record, empty for undefined. *)
getSyncMetadata(d) == {m \in d.metadata : m.key = "last_sync"}

searchFinishedGoods_caseSensitiveTerm(d, searchTerm) ==
    {good \in getFinishedGoods(d) :
        \/ includes(toLowerCase(good.product_name), searchTerm)
        \/ includes(toLowerCase(good.product_code), searchTerm)}

searchFinishedGoods(d, searchTerm) ==
    LET lowerSearchTerm == toLowerCase(searchTerm)
    IN {good \in getFinishedGoods(d) :
           \/ includes(toLowerCase(good.product_name), lowerSearchTerm)
           \/ includes(toLowerCase(good.product_code), lowerSearchTerm)}

(* indexedDB.open(dbName, 1): a database that exists at version 1 is       *)
(* opened as it is; a new one runs onupgradeneeded, which creates the      *)
(* three stores, empty.                                                    *)
open_recreate(d, exists) == EmptyDb

open(d, exists) == IF exists THEN d ELSE EmptyDb

(* 1000 * 60 * 60: the divisor of hoursDiff. *)
HourMs == 1000 * 60 * 60

(* checkIfSyncNeeded, after the metadata has been read: metadata is the    *)
(* set getSyncMetadata returned, nowMs is new Date().getTime(). A value    *)
(* written by toISOString() is never empty and parses back to its          *)
(* millisecond.                                                            *)
checkIfSyncNeeded_atLeastAnHour(metadata, nowMs) ==
    \/ metadata = {}
    \/ \E m \in metadata : nowMs - m.value >= HourMs

checkIfSyncNeeded(metadata, nowMs) ==
    \/ metadata = {}
    \/ \E m \in metadata : nowMs - m.value > HourMs

(* ------------------------------ state --------------------------------- *)

VARIABLES
    db,          \* committed contents of the three object stores
    dbExists,    \* the browser holds a database named FinishedGoodsDB
    handleOpen,  \* FinishedGoodsDB.db is not null
    leaked,      \* connections opened by init() that this.db no longer names
    now,         \* the clock, in ticks
    last,        \* SpecStore: the last call, its arguments, faults and result
    isLoaded,    \* useUser().isLoaded
    isSignedIn,  \* useUser().isSignedIn
    tasks,       \* the asynchronous invocations in flight
    connQueue,   \* pending open / delete requests on the database, in order
    txQueue,     \* transactions created and not yet finished, in order
    mgr,         \* FinishedGoodsDataManager's isInitializing, error, syncProgress
    hook,        \* useFinishedGoods' syncStatus
    wipeDone,    \* how the last sign-out handler since the last auth change returned,
                 \* and whether products were stored when its last step began
    user,        \* useUser().user.id once signed in: the person at the browser
    owner,       \* the user whose session fetched the stored products, or "none"
    hidden,      \* document.hidden
    proxy,       \* the request /api/finished-goods/sync is serving
    admin,       \* the request an /api/admin handler is serving
    view,        \* what a mounted useFinishedGoods instance holds of the store
    pager,       \* usePagination: currentPage, itemsPerPageState and its data
    rows         \* the tables behind PATCH /api/admin/areas

storeVars == <<db, dbExists, handleOpen, leaked, now>>
lifeVars == <<isLoaded, isSignedIn, tasks, connQueue, txQueue, mgr, hook, wipeDone>>
pageVars == <<view, pager, rows>>
otherVars == <<last, user, hidden, proxy, admin, pageVars>>
restVars == <<lifeVars, owner, user, hidden, proxy, admin, pageVars>>
vars == <<storeVars, last, lifeVars, owner, user, hidden, proxy, admin, pageVars>>

Users == {"A", "B"}
NoRequest == [pc |-> "none"]

NoCall ==
    [op |-> "none", records |-> <<>>, term |-> <<>>, categoryId |-> 0,
     openFault |-> FALSE, failAt |-> 0, result |-> "ok", pre |-> EmptyDb,
     preOpen |-> FALSE, ret |-> {}, at |-> 0]

(* One invocation: what it is (kind), where it stands (pc), the payload it  *)
(* fetched, the session its fetch carried, the fetches it has sent,         *)
(* whether it has dispatched finishedGoodsSyncComplete and, for a sign-in   *)
(* handler up to its freshness check, whether the sign-in followed a        *)
(* sign-out whose wipe had succeeded. For loadDataFromIndexedDB, read holds *)
(* its three reads: the init() calls still pending, the stores whose read   *)
(* transaction is created and not finished, whether one has rejected,       *)
(* whether all three transactions were created in the call's own job, and   *)
(* the results so far.                                                      *)
NoRead == [opens |-> 0, txs |-> <<>>, failed |-> FALSE, direct |-> FALSE, got |-> EmptyDb]
IdleTask ==
    [kind |-> "none", pc |-> "idle", data |-> <<>>, session |-> "none",
     fetches |-> 0, notified |-> FALSE, fresh |-> FALSE, read |-> NoRead]
NotWiped == [how |-> "no", populated |-> FALSE]
Wiped(how) == [how |-> how, populated |-> db.finished_goods # {}]
IdleMgr == [isInitializing |-> FALSE, error |-> FALSE, stage |-> "null", percentage |-> 0]

(* useState of useFinishedGoods: nothing loaded yet. lastSyncTime is the   *)
(* set holding the value, empty for null.                                  *)
EmptyView ==
    [finishedGoods |-> {}, categories |-> {}, lastSyncTime |-> {}, recordCount |-> 0,
     loading |-> FALSE, error |-> FALSE]

(* usePagination as FinishedGoodsPage mounts it: page 1, 12 items per page *)
(* and no data yet; op is the last call made on it.                        *)
FirstPage == [currentPage |-> 1, itemsPerPageState |-> 12, data |-> <<>>, op |-> "mount"]

NoRows == [areas |-> <<>>, users |-> <<>>, mappings |-> {}]

(* A page load: no connection, no invocation in flight, no request. *)
Mounted ==
    /\ handleOpen = FALSE
    /\ leaked = 0
    /\ now = 0
    /\ last = NoCall
    /\ isLoaded = FALSE
    /\ isSignedIn = FALSE
    /\ tasks = [t \in 1..MaxTasks |-> IdleTask]
    /\ connQueue = <<>>
    /\ txQueue = <<>>
    /\ mgr = IdleMgr
    /\ hook = "idle"
    /\ wipeDone = NotWiped
    /\ hidden = FALSE
    /\ proxy = NoRequest
    /\ admin = NoRequest
    /\ view = EmptyView
    /\ pager = FirstPage

Loaded == Mounted /\ rows = NoRows

(* SpecStore starts where the browser holds no database yet. *)
Init ==
    /\ db = EmptyDb
    /\ dbExists = FALSE
    /\ user = "A"
    /\ owner = "none"
    /\ Loaded

(* ------------------- SpecStore: one caller, call by call --------------- *)

Ready == last.result # "blocked"

(* new Date().getTime() *)
Date == now * TickMs

(* indexedDB.open(dbName, 1) succeeded: onupgradeneeded creates the stores *)
(* a new database lacks and touches no existing one; onsuccess overwrites  *)
(* this.db, and a connection it named before stays open.                   *)
OpenSucceeds ==
    /\ db' = open(db, dbExists)
    /\ dbExists' = TRUE
    /\ handleOpen' = TRUE
    /\ leaked' = IF handleOpen THEN leaked + 1 ELSE leaked

(* The stores as a method finds them after if (!this.db) await this.init() *)
Opened == IF handleOpen THEN db ELSE open(db, dbExists)

(* if (!this.db) await this.init(): the open can fail only when it is made *)
OpenFaults == IF handleOpen THEN {FALSE} ELSE BOOLEAN

EnsureFails(openFault) == ~handleOpen /\ openFault

Entry(op, openFault, failAt, result, ret) ==
    [NoCall EXCEPT !.op = op, !.openFault = openFault /\ ~handleOpen,
                   !.failAt = failAt, !.result = result, !.pre = db,
                   !.preOpen = handleOpen, !.ret = ret, !.at = now]

init ==
    \E openFault \in BOOLEAN :
        /\ Ready
        /\ handleOpen => leaked < MaxLeak
        /\ IF openFault
           THEN /\ last' = [Entry("init", FALSE, 0, "error", {}) EXCEPT !.openFault = TRUE]
                /\ UNCHANGED <<storeVars, restVars>>
           ELSE /\ OpenSucceeds
                /\ last' = Entry("init", FALSE, 0, "ok", {})
                /\ UNCHANGED <<now, restVars>>

CallStore ==
    \E records \in RecordLists, openFault \in OpenFaults :
      \E failAt \in -1..Len(storeRequests(records, Date)) :
        /\ Ready
        /\ IF EnsureFails(openFault)
           THEN /\ last' = [Entry("storeFinishedGoods", openFault, 0, "error", {})
                               EXCEPT !.records = records]
                /\ UNCHANGED <<storeVars, restVars>>
           ELSE LET out == storeFinishedGoods(Opened, records, Date, failAt)
                IN /\ db' = out.db
                   /\ dbExists' = TRUE
                   /\ handleOpen' = TRUE
                   /\ last' = [Entry("storeFinishedGoods", openFault, failAt,
                                     out.result, {})
                                  EXCEPT !.records = records]
                   /\ UNCHANGED <<leaked, now, restVars>>

CallClear ==
    \E openFault \in OpenFaults, failAt \in -1..Len(clearRequests) :
        /\ Ready
        /\ IF EnsureFails(openFault)
           THEN /\ last' = Entry("clearAllData", openFault, 0, "error", {})
                /\ UNCHANGED <<storeVars, restVars>>
           ELSE LET out == clearAllData(Opened, failAt)
                IN /\ db' = out.db
                   /\ dbExists' = TRUE
                   /\ handleOpen' = TRUE
                   /\ last' = Entry("clearAllData", openFault, failAt, out.result, {})
                   /\ UNCHANGED <<leaked, now, restVars>>

(* The reads: a readonly transaction with one request. *)
Read(op, value, term, categoryId) ==
    \E openFault \in OpenFaults, failAt \in 0..1 :
        /\ Ready
        /\ IF EnsureFails(openFault)
           THEN /\ last' = [Entry(op, openFault, 0, "error", {})
                               EXCEPT !.term = term, !.categoryId = categoryId]
                /\ UNCHANGED <<storeVars, restVars>>
           ELSE /\ db' = Opened
                /\ dbExists' = TRUE
                /\ handleOpen' = TRUE
                /\ last' = [Entry(op, openFault, failAt,
                                  IF failAt = 1 THEN "error" ELSE "ok",
                                  IF failAt = 1 THEN {} ELSE value)
                               EXCEPT !.term = term, !.categoryId = categoryId]
                /\ UNCHANGED <<leaked, now, restVars>>

CallGetFinishedGoods == Read("getFinishedGoods", getFinishedGoods(Opened), <<>>, 0)

CallGetByCategory ==
    \E categoryId \in CategoryIds :
        Read("getFinishedGoodsByCategory", getFinishedGoodsByCategory(Opened, categoryId),
             <<>>, categoryId)

CallGetCategories == Read("getCategories", getCategories(Opened), <<>>, 0)

CallGetSyncMetadata == Read("getSyncMetadata", getSyncMetadata(Opened), <<>>, 0)

CallSearch ==
    \E searchTerm \in SearchTerms :
        Read("searchFinishedGoods", searchFinishedGoods(Opened, searchTerm), searchTerm, 0)

(* close(): if (this.db) { this.db.close(); this.db = null } *)
close ==
    /\ Ready
    /\ handleOpen' = FALSE
    /\ last' = Entry("close", FALSE, 0, "ok", {})
    /\ UNCHANGED <<db, dbExists, leaked, now, restVars>>

(* deleteDatabase(): close(), then indexedDB.deleteDatabase(dbName). The   *)
(* request waits while any connection is open; no onblocked handler.       *)
CallDelete ==
    \E failAt \in 0..1 :
        /\ Ready
        /\ handleOpen' = FALSE
        /\ IF leaked > 0
           THEN /\ last' = Entry("deleteDatabase", FALSE, failAt, "blocked", {})
                /\ UNCHANGED <<db, dbExists>>
           ELSE IF failAt = 1
           THEN /\ last' = Entry("deleteDatabase", FALSE, failAt, "error", {})
                /\ UNCHANGED <<db, dbExists>>
           ELSE /\ last' = Entry("deleteDatabase", FALSE, failAt, "ok", {})
                /\ db' = EmptyDb
                /\ dbExists' = FALSE
        /\ UNCHANGED <<leaked, now, restVars>>

DeleteUnblocked ==
    /\ last.result = "blocked"
    /\ leaked = 0
    /\ IF last.failAt = 1
       THEN /\ last' = [last EXCEPT !.result = "error"]
            /\ UNCHANGED <<db, dbExists>>
       ELSE /\ last' = [last EXCEPT !.result = "ok"]
            /\ db' = EmptyDb
            /\ dbExists' = FALSE
    /\ UNCHANGED <<handleOpen, leaked, now, restVars>>

(* An IDBDatabase nothing references is closed when it is collected. *)
CollectConnection ==
    /\ leaked > 0
    /\ leaked' = leaked - 1
    /\ UNCHANGED <<db, dbExists, handleOpen, now, last, restVars>>

TickStore ==
    /\ now < MaxStoreTime
    /\ now' = now + 1
    /\ UNCHANGED <<db, dbExists, handleOpen, leaked, last, restVars>>

NextStore ==
    \/ init
    \/ CallStore
    \/ CallClear
    \/ CallGetFinishedGoods
    \/ CallGetByCategory
    \/ CallGetCategories
    \/ CallGetSyncMetadata
    \/ CallSearch
    \/ close
    \/ CallDelete
    \/ DeleteUnblocked
    \/ CollectConnection
    \/ TickStore

SpecStore == Init /\ [][NextStore]_vars

(* ------------- Spec: the manager, Retry and the hook's sync ------------ *)

Tasks == 1..MaxTasks

(* What one fetch of /api/finished-goods/sync can answer with. *)
FetchPool == {<<P1>>, <<P2, P3>>}

(* A new invocation takes the first free slot: the slots are alike. *)
Free(t) ==
    /\ tasks[t].pc = "idle"
    /\ \A u \in 1..(t - 1) : tasks[u].pc # "idle"

Task(kind, pc, data) == [IdleTask EXCEPT !.kind = kind, !.pc = pc, !.data = data]

(* fetch('/api/finished-goods/sync') is sent: the request carries the      *)
(* session the browser holds at that moment.                               *)
FetchSent(t, kind) ==
    [Task(kind, "fetch", <<>>) EXCEPT !.session = IF isSignedIn THEN user ELSE "none",
                                      !.fetches = tasks[t].fetches + 1]

Fetching(percentage) ==
    [isInitializing |-> TRUE, error |-> FALSE, stage |-> "fetching",
     percentage |-> percentage]

(* performInitialSync up to its first await: the states are set and        *)
(* finishedGoodsDB.init() is called.                                       *)
performInitialSync(t, kind) ==
    /\ mgr' = Fetching(10)
    /\ connQueue' = Append(connQueue, t)
    /\ tasks' = [tasks EXCEPT ![t] = Task(kind, "sync_open", <<>>)]

(* The catch of performInitialSync, and the catch of syncDataWithProgress. *)
SyncFailed(t) ==
    /\ tasks' = [tasks EXCEPT ![t] = IdleTask]
    /\ IF tasks[t].kind = "hook"
       THEN /\ hook' = "error"
            /\ UNCHANGED mgr
       ELSE /\ mgr' = [mgr EXCEPT !.error = TRUE, !.stage = "null", !.percentage = 0]
            /\ UNCHANGED hook

(* handleUserStateChange, signed-in branch, up to the await inside         *)
(* checkIfSyncNeeded: finishedGoodsDB.init() is called.                    *)
SignedInBranch(t) ==
    /\ tasks' = [tasks EXCEPT ![t] =
                    [Task("signin", "check_open", <<>>)
                        EXCEPT !.fresh = wipeDone.how \in {"cleared", "deleted"}]]
    /\ connQueue' = Append(connQueue, t)
    /\ UNCHANGED <<mgr, txQueue>>

(* handleUserStateChange, signed-out branch, up to the await inside        *)
(* clearAllData: the states are reset, then either init() is called or the *)
(* transaction over the three stores is created.                           *)
SignedOutBranch(t) ==
    /\ mgr' = IdleMgr
    /\ IF handleOpen
       THEN /\ tasks' = [tasks EXCEPT ![t] = Task("signout", "clear", <<>>)]
            /\ txQueue' = Append(txQueue, t)
            /\ UNCHANGED connQueue
       ELSE /\ tasks' = [tasks EXCEPT ![t] = Task("signout", "clear_open", <<>>)]
            /\ connQueue' = Append(connQueue, t)
            /\ UNCHANGED txQueue

(* useUser() reports isLoaded for the first time. *)
ClerkLoads(t) ==
    /\ ~isLoaded
    /\ Free(t)
    /\ isLoaded' = TRUE
    /\ \E signedIn \in BOOLEAN :
          /\ isSignedIn' = signedIn
          /\ IF signedIn THEN SignedInBranch(t) ELSE SignedOutBranch(t)
    /\ wipeDone' = NotWiped
    /\ UNCHANGED <<storeVars, owner, otherVars, hook>>

SignIn(t) ==
    /\ isLoaded
    /\ ~isSignedIn
    /\ Free(t)
    /\ isSignedIn' = TRUE
    /\ SignedInBranch(t)
    /\ wipeDone' = NotWiped
    /\ UNCHANGED <<storeVars, owner, otherVars, isLoaded, hook>>

(* On sign-out the hook's own effect resets its state to idle. *)
SignOut(t) ==
    /\ isLoaded
    /\ isSignedIn
    /\ Free(t)
    /\ isSignedIn' = FALSE
    /\ SignedOutBranch(t)
    /\ hook' = "idle"
    /\ wipeDone' = NotWiped
    /\ UNCHANGED <<storeVars, owner, otherVars, isLoaded>>

(* handleRetry: the button of the overlay, shown with an error. *)
Retry(t) ==
    /\ mgr.isInitializing
    /\ mgr.error
    /\ IF isSignedIn
       THEN /\ Free(t)
            /\ performInitialSync(t, "retry")
       ELSE /\ t = 1
            /\ mgr' = [mgr EXCEPT !.error = FALSE]
            /\ UNCHANGED <<tasks, connQueue>>
    /\ UNCHANGED <<storeVars, owner, otherVars, isLoaded, isSignedIn, txQueue, hook, wipeDone>>

(* handleCancel *)
Cancel ==
    /\ mgr.isInitializing
    /\ mgr.error
    /\ mgr' = IdleMgr
    /\ UNCHANGED <<storeVars, owner, otherVars, isLoaded, isSignedIn, tasks, connQueue, txQueue,
                   hook, wipeDone>>

(* syncData of the hook, from the Sync Data button (disabled while the     *)
(* hook's syncStatus is syncing, and covered by the manager's overlay      *)
(* while isInitializing), up to the await of the fetch.                    *)
HookSync(t) ==
    /\ hook # "syncing"
    /\ ~mgr.isInitializing
    /\ isSignedIn
    /\ Free(t)
    /\ hook' = "syncing"
    /\ tasks' = [tasks EXCEPT ![t] = FetchSent(t, "hook")]
    /\ UNCHANGED <<storeVars, owner, otherVars, isLoaded, isSignedIn, connQueue, txQueue, mgr,
                   wipeDone>>

(* storeFinishedGoods up to its first await. *)
CallStoreFinishedGoods(t, data) ==
    IF handleOpen
    THEN /\ tasks' = [tasks EXCEPT ![t].pc = "store", ![t].data = data]
         /\ txQueue' = Append(txQueue, t)
         /\ UNCHANGED connQueue
    ELSE /\ tasks' = [tasks EXCEPT ![t].pc = "store_open", ![t].data = data]
         /\ connQueue' = Append(connQueue, t)
         /\ UNCHANGED txQueue

(* complete is reported as soon as the payload is there. *)
FetchResolves_reportsComplete(t) ==
    /\ tasks[t].pc = "fetch"
    /\ tasks[t].session # "none"
    /\ \E data \in FetchPool : CallStoreFinishedGoods(t, data)
    /\ IF tasks[t].kind = "hook"
       THEN UNCHANGED mgr
       ELSE mgr' = [mgr EXCEPT !.stage = "complete", !.percentage = 100]
    /\ UNCHANGED <<storeVars, owner, otherVars, isLoaded, isSignedIn, hook, wipeDone>>

(* The route answers 200 only to a request with a session (auth() gives a *)
(* userId); the body is what the ERP returned.                             *)
FetchResolves(t) ==
    /\ tasks[t].pc = "fetch"
    /\ tasks[t].session # "none"
    /\ \E data \in FetchPool : CallStoreFinishedGoods(t, data)
    /\ IF tasks[t].kind = "hook"
       THEN UNCHANGED mgr
       ELSE mgr' = [mgr EXCEPT !.stage = "storing", !.percentage = 60]
    /\ UNCHANGED <<storeVars, owner, otherVars, isLoaded, isSignedIn, hook, wipeDone>>

(* The catch sends the fetch once more. *)
FetchRejects_retries(t) ==
    /\ tasks[t].pc = "fetch"
    /\ tasks[t].fetches < 2
    /\ tasks' = [tasks EXCEPT ![t].fetches = @ + 1]
    /\ UNCHANGED <<storeVars, owner, otherVars, isLoaded, isSignedIn, connQueue, txQueue,
                   mgr, hook, wipeDone>>

(* The catch empties the stores before it reports the failure. *)
FetchRejects_dropsCache(t) ==
    /\ tasks[t].pc = "fetch"
    /\ SyncFailed(t)
    /\ db' = EmptyDb
    /\ UNCHANGED <<dbExists, handleOpen, leaked, now, owner, otherVars, isLoaded,
                   isSignedIn, connQueue, txQueue, wipeDone>>

(* 401 without a session, or the ERP call failed, or the network did. *)
FetchRejects(t) ==
    /\ tasks[t].pc = "fetch"
    /\ SyncFailed(t)
    /\ UNCHANGED <<storeVars, owner, otherVars, isLoaded, isSignedIn, connQueue, txQueue, wipeDone>>

(* deleteDatabase() up to its promise: close(), then the delete request. *)
CallDeleteDatabase(t) ==
    /\ handleOpen' = FALSE
    /\ tasks' = [tasks EXCEPT ![t] = Task("signout", "delete", <<>>)]

OpenPending(t) ==
    /\ connQueue # <<>>
    /\ Head(connQueue) = t
    /\ tasks[t].pc \in {"check_open", "sync_open", "store_open", "clear_open"}

(* request.onsuccess of init(), and what the caller does next. *)
OpenResolves(t) ==
    /\ OpenPending(t)
    /\ handleOpen => leaked < MaxLeak
    /\ OpenSucceeds
    /\ CASE tasks[t].pc = "check_open" ->
              /\ tasks' = [tasks EXCEPT ![t].pc = "check_meta"]
              /\ connQueue' = Tail(connQueue)
              /\ txQueue' = Append(txQueue, t)
              /\ UNCHANGED <<mgr>>
         [] tasks[t].pc = "sync_open" ->
              /\ tasks' = [tasks EXCEPT ![t] = FetchSent(t, tasks[t].kind)]
              /\ connQueue' = Tail(connQueue)
              /\ mgr' = Fetching(40)
              /\ UNCHANGED <<txQueue>>
         [] tasks[t].pc = "store_open" ->
              /\ tasks' = [tasks EXCEPT ![t].pc = "store"]
              /\ connQueue' = Tail(connQueue)
              /\ txQueue' = Append(txQueue, t)
              /\ UNCHANGED <<mgr>>
         [] tasks[t].pc = "clear_open" ->
              /\ tasks' = [tasks EXCEPT ![t].pc = "clear"]
              /\ connQueue' = Tail(connQueue)
              /\ txQueue' = Append(txQueue, t)
              /\ UNCHANGED <<mgr>>
    /\ UNCHANGED <<owner, now, otherVars, isLoaded, isSignedIn, hook, wipeDone>>

(* request.onerror of init(), and what the caller does next. *)
OpenRejects(t) ==
    /\ OpenPending(t)
    /\ CASE tasks[t].pc = "check_open" ->
              /\ performInitialSync(t, "signin")
              /\ connQueue' = Append(Tail(connQueue), t)
              /\ UNCHANGED <<handleOpen, hook>>
         [] tasks[t].pc \in {"sync_open", "store_open"} ->
              /\ SyncFailed(t)
              /\ connQueue' = Tail(connQueue)
              /\ UNCHANGED <<handleOpen>>
         [] tasks[t].pc = "clear_open" ->
              /\ CallDeleteDatabase(t)
              /\ connQueue' = Append(Tail(connQueue), t)
              /\ UNCHANGED <<mgr, hook>>
    /\ UNCHANGED <<db, owner, dbExists, leaked, now, otherVars, isLoaded, isSignedIn, txQueue,
                   wipeDone>>

TxPending(t, pc) ==
    /\ txQueue # <<>>
    /\ Head(txQueue) = t
    /\ tasks[t].pc = pc

(* getSyncMetadata() resolves inside checkIfSyncNeeded; the handler then   *)
(* calls performInitialSync or returns.                                    *)
MetadataRead(t) ==
    /\ TxPending(t, "check_meta")
    /\ txQueue' = Tail(txQueue)
    /\ IF checkIfSyncNeeded(getSyncMetadata(db), Date)
       THEN performInitialSync(t, "signin")
       ELSE /\ tasks' = [tasks EXCEPT ![t] = IdleTask]
            /\ UNCHANGED <<mgr, connQueue>>
    /\ UNCHANGED <<storeVars, owner, otherVars, isLoaded, isSignedIn, hook, wipeDone>>

(* getSyncMetadata() rejects: the catch of checkIfSyncNeeded answers true. *)
MetadataReadFails(t) ==
    /\ TxPending(t, "check_meta")
    /\ txQueue' = Tail(txQueue)
    /\ performInitialSync(t, "signin")
    /\ UNCHANGED <<storeVars, owner, otherVars, isLoaded, isSignedIn, hook, wipeDone>>

(* The transaction of storeFinishedGoods ends. *)
StoreSettles(t) ==
    /\ TxPending(t, "store")
    /\ txQueue' = Tail(txQueue)
    /\ \E failAt \in -1..1 :
          LET out == storeFinishedGoods(db, tasks[t].data, Date, failAt)
          IN /\ db' = out.db
             /\ owner' = IF out.result = "ok" THEN tasks[t].session ELSE owner
             /\ CASE out.result = "ok" /\ tasks[t].kind = "hook" ->
                       /\ tasks' = [tasks EXCEPT ![t].pc = "reload"]
                       /\ UNCHANGED <<mgr, hook>>
                  [] out.result = "ok" /\ tasks[t].kind # "hook" ->
                       /\ tasks' = [tasks EXCEPT ![t].pc = "delay"]
                       /\ mgr' = [mgr EXCEPT !.stage = "processing", !.percentage = 80]
                       /\ UNCHANGED <<hook>>
                  [] out.result = "error" -> SyncFailed(t)
                  [] OTHER ->
                       /\ tasks' = [tasks EXCEPT ![t].pc = "hung"]
                       /\ UNCHANGED <<mgr, hook>>
    /\ UNCHANGED <<dbExists, handleOpen, leaked, now, otherVars, isLoaded, isSignedIn,
                   connQueue, wipeDone>>

(* The hook re-reads the three stores and reports success. *)
HookReloads(t) ==
    /\ tasks[t].pc = "reload"
    /\ tasks' = [tasks EXCEPT ![t] = IdleTask]
    /\ hook' = "success"
    /\ UNCHANGED <<storeVars, owner, otherVars, isLoaded, isSignedIn, connQueue, txQueue, mgr,
                   wipeDone>>

(* The 500 ms timer of performInitialSync: complete is reported and       *)
(* finishedGoodsSyncComplete is dispatched; then the 1500 ms timer hides   *)
(* the overlay.                                                            *)
TimerFires(t) ==
    /\ tasks[t].pc \in {"delay", "hide"}
    /\ IF tasks[t].pc = "delay"
       THEN /\ tasks' = [tasks EXCEPT ![t].pc = "hide", ![t].notified = TRUE]
            /\ mgr' = [mgr EXCEPT !.stage = "complete", !.percentage = 100]
       ELSE /\ tasks' = [tasks EXCEPT ![t] = IdleTask]
            /\ mgr' = [mgr EXCEPT !.isInitializing = FALSE, !.stage = "null",
                                  !.percentage = 0]
    /\ UNCHANGED <<storeVars, owner, otherVars, isLoaded, isSignedIn, connQueue, txQueue, hook,
                   wipeDone>>

(* The transaction of clearAllData completes: the handler returns. *)
ClearResolves(t) ==
    /\ TxPending(t, "clear")
    /\ clearAllData(db, 0).result = "ok"
    /\ db' = clearAllData(db, 0).db
    /\ txQueue' = Tail(txQueue)
    /\ tasks' = [tasks EXCEPT ![t] = IdleTask]
    /\ wipeDone' = Wiped("cleared")
    /\ owner' = "none"
    /\ UNCHANGED <<dbExists, handleOpen, leaked, now, otherVars, isLoaded, isSignedIn,
                   connQueue, mgr, hook>>

(* The catch logs the failure and calls nothing. *)
ClearRejects_noFallback(t) ==
    /\ TxPending(t, "clear")
    /\ txQueue' = Tail(txQueue)
    /\ tasks' = [tasks EXCEPT ![t] = IdleTask]
    /\ wipeDone' = Wiped("failed")
    /\ UNCHANGED <<storeVars, owner, otherVars, isLoaded, isSignedIn, connQueue, mgr, hook>>

(* A clear request fails: the catch calls deleteDatabase(). *)
ClearRejects(t) ==
    /\ TxPending(t, "clear")
    /\ \E failAt \in 1..Len(clearRequests) :
          /\ clearAllData(db, failAt).result = "error"
          /\ db' = clearAllData(db, failAt).db
    /\ txQueue' = Tail(txQueue)
    /\ CallDeleteDatabase(t)
    /\ connQueue' = Append(connQueue, t)
    /\ UNCHANGED <<owner, dbExists, leaked, now, otherVars, isLoaded, isSignedIn, mgr,
                   hook, wipeDone>>

(* The transaction aborts at commit: clearAllData never settles. *)
ClearHangs(t) ==
    /\ TxPending(t, "clear")
    /\ clearAllData(db, -1).result = "never"
    /\ db' = clearAllData(db, -1).db
    /\ txQueue' = Tail(txQueue)
    /\ tasks' = [tasks EXCEPT ![t].pc = "hung"]
    /\ UNCHANGED <<owner, dbExists, handleOpen, leaked, now, otherVars, isLoaded, isSignedIn,
                   connQueue, mgr, hook, wipeDone>>

DeletePending(t) ==
    /\ connQueue # <<>>
    /\ Head(connQueue) = t
    /\ tasks[t].pc = "delete"

(* deleteRequest.onsuccess: every connection is closed and every           *)
(* transaction has ended; the database is gone and the handler returns.    *)
DeleteResolves(t) ==
    /\ DeletePending(t)
    /\ ~handleOpen
    /\ leaked = 0
    /\ txQueue = <<>>
    /\ db' = EmptyDb
    /\ dbExists' = FALSE
    /\ connQueue' = Tail(connQueue)
    /\ tasks' = [tasks EXCEPT ![t] = IdleTask]
    /\ wipeDone' = Wiped("deleted")
    /\ owner' = "none"
    /\ UNCHANGED <<handleOpen, leaked, now, otherVars, isLoaded, isSignedIn, txQueue, mgr,
                   hook>>

(* deleteRequest.onerror: the inner catch logs it and the handler returns. *)
DeleteRejects(t) ==
    /\ DeletePending(t)
    /\ connQueue' = Tail(connQueue)
    /\ tasks' = [tasks EXCEPT ![t] = IdleTask]
    /\ wipeDone' = Wiped("failed")
    /\ UNCHANGED <<storeVars, owner, otherVars, isLoaded, isSignedIn, txQueue, mgr, hook>>

Tick ==
    /\ now < MaxTime
    /\ now' = now + 1
    /\ UNCHANGED <<db, owner, dbExists, handleOpen, leaked, otherVars, lifeVars>>

Next ==
    \/ \E t \in Tasks : ClerkLoads(t)
    \/ \E t \in Tasks : SignIn(t)
    \/ \E t \in Tasks : SignOut(t)
    \/ \E t \in Tasks : Retry(t)
    \/ Cancel
    \/ \E t \in Tasks : HookSync(t)
    \/ \E t \in Tasks : FetchResolves(t)
    \/ \E t \in Tasks : FetchRejects(t)
    \/ \E t \in Tasks : OpenResolves(t)
    \/ \E t \in Tasks : OpenRejects(t)
    \/ \E t \in Tasks : MetadataRead(t)
    \/ \E t \in Tasks : MetadataReadFails(t)
    \/ \E t \in Tasks : StoreSettles(t)
    \/ \E t \in Tasks : HookReloads(t)
    \/ \E t \in Tasks : TimerFires(t)
    \/ \E t \in Tasks : ClearResolves(t)
    \/ \E t \in Tasks : ClearRejects(t)
    \/ \E t \in Tasks : ClearHangs(t)
    \/ \E t \in Tasks : DeleteResolves(t)
    \/ \E t \in Tasks : DeleteRejects(t)
    \/ CollectConnection
    \/ Tick

(* The browser keeps the database across page loads: the page finds none, *)
(* or the generation an earlier page load stored at tick 0.                *)
Persisted == storeFinishedGoods(EmptyDb, <<P1>>, 0, 0).db

InitPage ==
    /\ user = "A"
    /\ \/ db = EmptyDb /\ dbExists = FALSE /\ owner = "none"
       \/ db = Persisted /\ dbExists = TRUE /\ owner = user
    /\ Loaded

Spec == InitPage /\ [][Next]_vars

(* ---- SpecSession: two users at one browser, and the tab's visibility --- *)
(* The manager's effect handlers alone, with the clock standing still: the *)
(* overlay's buttons and the hook's manual sync are left to Spec.          *)

(* useUser() reports another user.id while isSignedIn stays true (the      *)
(* active session is switched): the effect runs handleUserStateChange      *)
(* again, in its signed-in branch.                                         *)
SwitchUser(t) ==
    /\ isLoaded
    /\ isSignedIn
    /\ Free(t)
    /\ user' \in Users \ {user}
    /\ SignedInBranch(t)
    /\ wipeDone' = NotWiped
    /\ UNCHANGED <<storeVars, owner, last, hidden, proxy, admin, pageVars, isLoaded, isSignedIn,
                   hook>>

(* The other user signs in at this browser. *)
SignInOther(t) ==
    /\ isLoaded
    /\ ~isSignedIn
    /\ Free(t)
    /\ isSignedIn' = TRUE
    /\ user' \in Users \ {user}
    /\ SignedInBranch(t)
    /\ wipeDone' = NotWiped
    /\ UNCHANGED <<storeVars, owner, last, hidden, proxy, admin, pageVars, isLoaded, hook>>

(* handleVisibilityChange as the tab becomes hidden: with !isSignedIn it   *)
(* calls clearAllData(), which opens the database first when this.db is    *)
(* null; the promise is not awaited.                                       *)
TabHidden(t) ==
    /\ ~hidden
    /\ hidden' = TRUE
    /\ IF ~isSignedIn
       THEN /\ Free(t)
            /\ IF handleOpen
               THEN /\ tasks' = [tasks EXCEPT ![t] = Task("hidden", "wipe", <<>>)]
                    /\ txQueue' = Append(txQueue, t)
                    /\ UNCHANGED connQueue
               ELSE /\ tasks' = [tasks EXCEPT ![t] = Task("hidden", "wipe_open", <<>>)]
                    /\ connQueue' = Append(connQueue, t)
                    /\ UNCHANGED txQueue
       ELSE /\ t = 1
            /\ UNCHANGED <<tasks, connQueue, txQueue>>
    /\ UNCHANGED <<storeVars, owner, last, user, proxy, admin, pageVars, isLoaded, isSignedIn, mgr,
                   hook, wipeDone>>

(* handleVisibilityChange as the tab is shown again: document.hidden is    *)
(* false and nothing is called.                                            *)
TabShown ==
    /\ hidden
    /\ hidden' = FALSE
    /\ UNCHANGED <<storeVars, owner, last, user, proxy, admin, pageVars, lifeVars>>

(* init() inside the hidden tab's clearAllData settles: the transaction is *)
(* created, or .catch(console.error) logs the failure.                     *)
WipeOpens(t) ==
    /\ connQueue # <<>>
    /\ Head(connQueue) = t
    /\ tasks[t].pc = "wipe_open"
    /\ connQueue' = Tail(connQueue)
    /\ \/ /\ handleOpen => leaked < MaxLeak
          /\ OpenSucceeds
          /\ tasks' = [tasks EXCEPT ![t].pc = "wipe"]
          /\ txQueue' = Append(txQueue, t)
       \/ /\ tasks' = [tasks EXCEPT ![t] = IdleTask]
          /\ UNCHANGED <<db, dbExists, handleOpen, leaked, txQueue>>
    /\ UNCHANGED <<owner, now, otherVars, isLoaded, isSignedIn, mgr, hook, wipeDone>>

(* The transaction of the hidden tab's clearAllData ends: the stores are   *)
(* empty, or .catch(console.error) logs the failure, or the promise never  *)
(* settles.                                                                *)
WipeSettles(t) ==
    /\ TxPending(t, "wipe")
    /\ txQueue' = Tail(txQueue)
    /\ \E failAt \in -1..Len(clearRequests) :
          LET out == clearAllData(db, failAt)
          IN /\ db' = out.db
             /\ owner' = IF out.result = "ok" THEN "none" ELSE owner
             /\ tasks' = IF out.result = "never"
                         THEN [tasks EXCEPT ![t].pc = "hung"]
                         ELSE [tasks EXCEPT ![t] = IdleTask]
    /\ UNCHANGED <<dbExists, handleOpen, leaked, now, otherVars, isLoaded, isSignedIn,
                   connQueue, mgr, hook, wipeDone>>

NextSession ==
    \/ \E t \in Tasks : ClerkLoads(t)
    \/ \E t \in Tasks : SignIn(t)
    \/ \E t \in Tasks : SignInOther(t)
    \/ \E t \in Tasks : SwitchUser(t)
    \/ \E t \in Tasks : SignOut(t)
    \/ \E t \in Tasks : TabHidden(t)
    \/ TabShown
    \/ \E t \in Tasks : WipeOpens(t)
    \/ \E t \in Tasks : WipeSettles(t)
    \/ \E t \in Tasks : FetchResolves(t)
    \/ \E t \in Tasks : FetchRejects(t)
    \/ \E t \in Tasks : OpenResolves(t)
    \/ \E t \in Tasks : OpenRejects(t)
    \/ \E t \in Tasks : MetadataRead(t)
    \/ \E t \in Tasks : MetadataReadFails(t)
    \/ \E t \in Tasks : StoreSettles(t)
    \/ \E t \in Tasks : TimerFires(t)
    \/ \E t \in Tasks : ClearResolves(t)
    \/ \E t \in Tasks : ClearRejects(t)
    \/ \E t \in Tasks : ClearHangs(t)
    \/ \E t \in Tasks : DeleteResolves(t)
    \/ \E t \in Tasks : DeleteRejects(t)
    \/ CollectConnection

(* Either user is at the browser; the page finds no database, or the      *)
(* generation an earlier page load of that user stored within the hour.    *)
InitSession ==
    /\ user \in Users
    /\ \/ db = EmptyDb /\ dbExists = FALSE /\ owner = "none"
       \/ db = Persisted /\ dbExists = TRUE /\ owner = user
    /\ Loaded

SpecSession == InitSession /\ [][NextSession]_vars

(* --------- SpecProxy: /api/finished-goods/sync and the ERP fetch ------- *)

clientVars == <<storeVars, last, lifeVars, owner, user, hidden>>

(* process.env.NEXT_IDEMPIERE_URL and process.env.IDEMPIERE_TOKEN are set. *)
Configs == [url : BOOLEAN, token : BOOLEAN]

(* What the runtime's fetch() can do with the ERP request. It rejects when *)
(* AbortSignal.timeout(30000) fires, with the signal's reason (a           *)
(* DOMException named TimeoutError) or, in runtimes that ignore the        *)
(* reason, with one named AbortError; it rejects with a TypeError when the *)
(* host cannot be reached, whose message is the runtime's own; otherwise   *)
(* it resolves with a response: a status and a body.                        *)
TimeoutErrors ==
    {[kind |-> "timeout", name |-> n, message |-> <<"operation", "aborted">>] :
        n \in {"TimeoutError", "AbortError"}}

NetworkErrors ==
    {[kind |-> "network", name |-> "TypeError", message |-> m] :
        m \in {<<"fetch", "failed">>, <<"getaddrinfo", "ENOTFOUND">>,
               <<"connect", "ECONNREFUSED">>}}

(* A non-2xx response; its body has a message, an error, or is no JSON.    *)
HttpErrors ==
    {[kind |-> "http", status |-> st, body |-> b] :
        st \in {401, 404, 500}, b \in {"message", "error", "nojson"}}

(* A 2xx response and what response.json() makes of its body. *)
Payloads ==
    {[kind |-> "payload", status |-> 200, body |-> b, records |-> <<>>] :
        b \in {"nojson", "null", "number", "norecords", "recordsobject"}}
    \cup {[kind |-> "payload", status |-> 200, body |-> "recordslist", records |-> r] :
            r \in {<<>>, <<P1>>, <<P2, P3>>}}

ErpOutcomes == TimeoutErrors \cup NetworkErrors \cup HttpErrors \cup Payloads

(* new IDempiereAPIError(message, status): text is the message the code    *)
(* writes, detail what it appends from the runtime or the ERP, status 0    *)
(* stands for undefined.                                                   *)
IDempiereAPIError(text, detail, status) ==
    [ok |-> FALSE, text |-> text, detail |-> detail, status |-> status, records |-> <<>>]

(* The catch of fetchFinishedGoodsFromIDempiere for an Error that is not   *)
(* an IDempiereAPIError.                                                   *)
CatchFetchError(name, message) ==
    IF name = "AbortError"
    THEN IDempiereAPIError("Request timeout", <<>>, 0)
    ELSE IF includes(message, <<"ENOTFOUND">>) \/ includes(message, <<"ECONNREFUSED">>)
    THEN IDempiereAPIError("Network error", <<>>, 0)
    ELSE IDempiereAPIError("Unexpected error fetching from iDempiere", message, 0)

(* fetchFinishedGoodsFromIDempiere, given the configuration and what the   *)
(* ERP request meets.                                                      *)
fetchFinishedGoodsFromIDempiere(config, erp) ==
    IF ~config.url \/ ~config.token
    THEN IDempiereAPIError("Missing iDempiere configuration", <<>>, 500)
    ELSE CASE erp.kind \in {"timeout", "network"} -> CatchFetchError(erp.name, erp.message)
           [] erp.kind = "http" ->
                IDempiereAPIError("Failed to fetch finished goods from iDempiere",
                                  IF erp.body = "nojson" THEN <<"HTTP", "error", erp.status>>
                                  ELSE <<erp.body>>,
                                  erp.status)
           [] erp.body = "nojson" ->
                CatchFetchError("SyntaxError", <<"Unexpected", "token">>)
           [] erp.body \in {"null", "number"} ->
                IDempiereAPIError("Invalid response format from iDempiere API", <<>>, 0)
           [] erp.body \in {"norecords", "recordsobject"} ->
                IDempiereAPIError("Invalid response format: records field is not an array",
                                  <<>>, 0)
           [] OTHER ->
                [ok |-> TRUE, text |-> "", detail |-> <<>>, status |-> 200,
                 records |-> erp.records]

Methods == {"GET", "POST"}

(* A request reaches the route: auth() will give the session's userId. *)
RouteReceives ==
    \E method \in Methods, userId \in Users \cup {"none"}, config \in Configs :
        /\ proxy.pc \in {"none", "done"}
        /\ proxy' = [pc |-> "auth", method |-> method, userId |-> userId,
                     config |-> config, erpCalls |-> 0, erp |-> "none",
                     status |-> 0, thrown |-> FALSE, result |-> "none"]
        /\ UNCHANGED <<clientVars, admin, pageVars>>

(* The handler's catch: error.status || 500. *)
RouteCatch(error) == IF error.status # 0 THEN error.status ELSE 500

(* const { userId } = await auth(): a request without one is answered    *)
(* 401. Any other calls fetchFinishedGoodsFromIDempiere, which throws at once   *)
(* without its configuration and sends the ERP request with it.            *)
RouteAuth_unchecked ==
    /\ proxy.pc = "auth"
    /\ IF ~proxy.config.url \/ ~proxy.config.token
       THEN LET error == fetchFinishedGoodsFromIDempiere(proxy.config, "none")
            IN proxy' = [proxy EXCEPT !.pc = "done", !.status = RouteCatch(error),
                                      !.thrown = TRUE, !.result = error]
       ELSE proxy' = [proxy EXCEPT !.pc = "erp", !.erpCalls = @ + 1]
    /\ UNCHANGED <<clientVars, admin, pageVars>>

RouteAuth ==
    /\ proxy.pc = "auth"
    /\ IF proxy.userId = "none"
       THEN proxy' = [proxy EXCEPT !.pc = "done", !.status = 401]
       ELSE IF ~proxy.config.url \/ ~proxy.config.token
       THEN LET error == fetchFinishedGoodsFromIDempiere(proxy.config, "none")
            IN proxy' = [proxy EXCEPT !.pc = "done", !.status = RouteCatch(error),
                                      !.thrown = TRUE, !.result = error]
       ELSE proxy' = [proxy EXCEPT !.pc = "erp", !.erpCalls = @ + 1]
    /\ UNCHANGED <<clientVars, admin, pageVars>>

(* The ERP request settles; the handler answers with the payload or with   *)
(* the error's message and status.                                         *)
RouteErpSettles ==
    \E erp \in ErpOutcomes :
        /\ proxy.pc = "erp"
        /\ LET result == fetchFinishedGoodsFromIDempiere(proxy.config, erp)
           IN proxy' = [proxy EXCEPT !.pc = "done", !.erp = erp, !.result = result,
                                     !.thrown = ~result.ok,
                                     !.status = IF result.ok THEN 200
                                                ELSE RouteCatch(result)]
        /\ UNCHANGED <<clientVars, admin, pageVars>>

NextProxy ==
    \/ RouteReceives
    \/ RouteAuth
    \/ RouteErpSettles

SpecProxy == Init /\ [][NextProxy]_vars

(* ------------- SpecAdmin: the handlers under /api/admin ---------------- *)

AdminHandlers ==
    {"users.GET", "users.PUT", "users.PATCH", "areas.GET", "areas.POST", "areas.PUT",
     "areas.PATCH", "create-user.POST"}

(* The role checkSuperadminAccess finds for the caller in user_profiles;   *)
(* "error" when the query fails or finds no profile.                       *)
Roles == {"superadmin", "area sales supervisor", "error"}

(* The request's body and parameters: complete, complete with isActive     *)
(* false, lacking a required field, or a body that is no JSON.             *)
AdminInputs == {"valid", "deactivate", "missing", "nojson"}

(* What the database and Clerk do with the handler's calls. *)
AdminFaults == {"none", "notfound", "conflict", "clerk", "clerkdown", "db"}

(* checkSuperadminAccess *)
checkSuperadminAccess(role) == role = "superadmin"

AdminAnswer(status, touched) == [status |-> status, touched |-> touched]

(* A handler below its access check: the answer's status, and the tables   *)
(* and services it has read or written on the way.                         *)
AdminBody(handler, input, fault) ==
    CASE handler = "users.GET" ->
           AdminAnswer(IF fault = "db" THEN 500 ELSE 200, {"user_profiles"})
      [] handler = "users.PUT" ->
           AdminAnswer(IF fault = "db" THEN 500 ELSE 200, {"user_profiles"})
      [] handler = "areas.GET" ->
           AdminAnswer(IF fault = "db" THEN 500 ELSE 200, {"master_areas"})
      [] input = "nojson" -> AdminAnswer(500, {})
      [] input = "missing" -> AdminAnswer(400, {})
      [] handler = "users.PATCH" ->
           CASE fault = "notfound" -> AdminAnswer(404, {"user_profiles"})
             [] fault = "clerk" -> AdminAnswer(400, {"user_profiles", "clerk"})
             [] fault = "clerkdown" -> AdminAnswer(500, {"user_profiles", "clerk"})
             [] fault = "db" -> AdminAnswer(500, {"user_profiles", "clerk"})
             [] OTHER -> AdminAnswer(200, {"user_profiles", "clerk"})
      [] handler \in {"areas.POST", "areas.PUT"} ->
           CASE fault = "conflict" -> AdminAnswer(409, {"master_areas"})
             [] fault = "db" -> AdminAnswer(500, {"master_areas"})
             [] OTHER -> AdminAnswer(IF handler = "areas.POST" THEN 201 ELSE 200,
                                     {"master_areas"})
      [] handler = "areas.PATCH" ->
           CASE fault = "db" -> AdminAnswer(500, {"master_areas"})
             [] input = "deactivate" ->
                  AdminAnswer(200, {"master_areas", "user_area_mappings",
                                    "user_profiles", "clerk"})
             [] OTHER -> AdminAnswer(200, {"master_areas"})
      [] OTHER ->
           CASE fault \in {"clerk", "clerkdown"} ->
                  AdminAnswer(IF fault = "clerk" THEN 400 ELSE 500, {"clerk"})
             [] fault = "db" -> AdminAnswer(500, {"clerk", "user_profiles"})
             [] OTHER -> AdminAnswer(201, {"clerk", "user_profiles"})

AdminReceives ==
    \E handler \in AdminHandlers, userId \in {"none", "A"}, role \in Roles,
       input \in AdminInputs :
        /\ admin.pc \in {"none", "done"}
        /\ admin' = [pc |-> "auth", handler |-> handler, userId |-> userId,
                     role |-> role, input |-> input, status |-> 0, touched |-> {}]
        /\ UNCHANGED <<clientVars, proxy, pageVars>>

(* const { userId } = await auth(): 401 without one. PUT on users then     *)
(* reads its body and parameters; every other handler checks the role.     *)
AdminAuth ==
    /\ admin.pc = "auth"
    /\ admin' = IF admin.userId = "none"
                THEN [admin EXCEPT !.pc = "done", !.status = 401]
                ELSE IF admin.handler = "users.PUT"
                THEN [admin EXCEPT !.pc = "validate"]
                ELSE [admin EXCEPT !.pc = "access"]
    /\ UNCHANGED <<clientVars, proxy, pageVars>>

(* PUT on users: await req.json(), the update data and clerkUserId. *)
AdminValidates ==
    /\ admin.pc = "validate"
    /\ admin' = CASE admin.input = "nojson" -> [admin EXCEPT !.pc = "done", !.status = 500]
                  [] admin.input = "missing" -> [admin EXCEPT !.pc = "done", !.status = 400]
                  [] OTHER -> [admin EXCEPT !.pc = "access"]
    /\ UNCHANGED <<clientVars, proxy, pageVars>>

(* await checkSuperadminAccess(userId): 403 unless it answers true. *)
AdminAccess ==
    /\ admin.pc = "access"
    /\ admin' = IF checkSuperadminAccess(admin.role)
                THEN [admin EXCEPT !.pc = "act"]
                ELSE [admin EXCEPT !.pc = "done", !.status = 403]
    /\ UNCHANGED <<clientVars, proxy, pageVars>>

AdminActs ==
    \E fault \in AdminFaults :
        /\ admin.pc = "act"
        /\ LET answer == AdminBody(admin.handler, admin.input, fault)
           IN admin' = [admin EXCEPT !.pc = "done", !.status = answer.status,
                                     !.touched = answer.touched]
        /\ UNCHANGED <<clientVars, proxy, pageVars>>

NextAdmin ==
    \/ AdminReceives
    \/ AdminAuth
    \/ AdminValidates
    \/ AdminAccess
    \/ AdminActs

SpecAdmin == Init /\ [][NextAdmin]_vars

(* ---------------- SpecPage: usePagination, call by call ---------------- *)
(* pager is the state of the last committed render; an action is one call  *)
(* of the hook's functions, or a change of its data prop, with the renders *)
(* that follow up to the commit.                                           *)

MaxItems == 4
MaxPerPage == 3

clientAndServerVars == <<clientVars, proxy, admin, view, rows>>

(* The arrays FinishedGoodsPage passes as data. *)
DataPool == UNION {[1..n -> {7}] \cup {[i \in 1..n |-> i]} : n \in 0..MaxItems}

(* Math.ceil(a / b) for a >= 0, b >= 1 *)
Ceil(a, b) == (a + b - 1) \div b

Min(a, b) == IF a < b THEN a ELSE b
Max(a, b) == IF a > b THEN a ELSE b

totalItems(p) == Len(p.data)
totalPages(p) == Ceil(totalItems(p), p.itemsPerPageState)
startIndex(p) == (p.currentPage - 1) * p.itemsPerPageState
endIndex(p) == Min(startIndex(p) + p.itemsPerPageState, totalItems(p))

(* data.slice(startIndex, endIndex) for 0 <= startIndex *)
slice(data, from, to) ==
    IF from >= Min(to, Len(data)) THEN <<>> ELSE SubSeq(data, from + 1, Min(to, Len(data)))

paginatedData(p) == slice(p.data, startIndex(p), endIndex(p))

(* A render that keeps the page it is given. *)
Render_keepsPage(p) == p

(* One render: the useMemo of lines 117-121 calls setCurrentPage(1) while  *)
(* rendering when the page lies beyond the last one, and React renders     *)
(* again with page 1 before it commits.                                    *)
Render(p) ==
    IF p.currentPage > totalPages(p) /\ totalPages(p) > 0
    THEN [p EXCEPT !.currentPage = 1]
    ELSE p

(* goToPage(page): clamped with the totalPages of the committed render. *)
SetPage(page, op) ==
    LET pageNumber == Max(1, Min(page, totalPages(pager)))
    IN /\ pager' = Render([pager EXCEPT !.currentPage = pageNumber, !.op = op])
       /\ UNCHANGED clientAndServerVars

goToPage == \E page \in -1..(MaxItems + 2) : SetPage(page, "goToPage")

goToNextPage == SetPage(pager.currentPage + 1, "goToNextPage")

goToPreviousPage == SetPage(pager.currentPage - 1, "goToPreviousPage")

goToFirstPage == SetPage(1, "goToFirstPage")

goToLastPage == SetPage(totalPages(pager), "goToLastPage")

setItemsPerPage ==
    \E items \in 1..MaxPerPage :
        /\ pager' = Render([pager EXCEPT !.itemsPerPageState = items, !.currentPage = 1,
                                         !.op = "setItemsPerPage"])
        /\ UNCHANGED clientAndServerVars

(* The filtered list changes: usePagination is rendered with a new data. *)
DataChanges ==
    \E data \in DataPool :
        /\ data # pager.data
        /\ pager' = Render([pager EXCEPT !.data = data, !.op = "data"])
        /\ UNCHANGED clientAndServerVars

NextPage ==
    \/ goToPage
    \/ goToNextPage
    \/ goToPreviousPage
    \/ goToFirstPage
    \/ goToLastPage
    \/ setItemsPerPage
    \/ DataChanges

SpecPage == Init /\ [][NextPage]_vars

(* ------------- SpecCascade: PATCH /api/admin/areas, step by step -------- *)
(* rows holds master_areas (is_active by id), user_profiles (primary       *)
(* area_id and is_active by id) and user_area_mappings; admin is the       *)
(* request being served; a step is one awaited call of the handler.        *)

MaxAreas == 2
MaxUsers == 2

AreaIds == 1..MaxAreas
UserIds == 1..MaxUsers

browserVars == <<clientVars, proxy, view, pager>>

Tables ==
    [areas : [AreaIds -> BOOLEAN],
     users : [UserIds -> [area_id : AreaIds, is_active : BOOLEAN]],
     mappings : SUBSET (UserIds \X AreaIds)]

InitCascade ==
    /\ db = EmptyDb
    /\ dbExists = FALSE
    /\ user = "A"
    /\ owner = "none"
    /\ Mounted
    /\ rows \in Tables

Answer(status) == [admin EXCEPT !.pc = "done", !.status = status]

(* The request arrives; auth(), checkSuperadminAccess and the test of the  *)
(* body answer 401, 403 and 400.                                           *)
PatchReceives ==
    /\ admin = NoRequest
    /\ \E userId \in BOOLEAN, role \in Roles, id \in 0..(MaxAreas + 1), isActive \in BOOLEAN :
          LET request == [pc |-> "update", id |-> id, isActive |-> isActive, status |-> 0,
                          found |-> {}, marked |-> {}]
          IN admin' = IF ~userId THEN [request EXCEPT !.pc = "done", !.status = 401]
                      ELSE IF ~checkSuperadminAccess(role)
                      THEN [request EXCEPT !.pc = "done", !.status = 403]
                      ELSE IF id = 0 THEN [request EXCEPT !.pc = "done", !.status = 400]
                      ELSE request
    /\ UNCHANGED <<browserVars, rows>>

(* update master_areas set is_active where id, .single(): no row, or a     *)
(* database error, answers 500.                                            *)
PatchUpdatesArea ==
    /\ admin.pc = "update"
    /\ \E error \in BOOLEAN :
          IF error \/ admin.id \notin AreaIds
          THEN /\ admin' = Answer(500)
               /\ UNCHANGED rows
          ELSE /\ rows' = [rows EXCEPT !.areas[admin.id] = admin.isActive]
               /\ admin' = IF admin.isActive THEN Answer(200)
                           ELSE [admin EXCEPT !.pc = "unmap"]
    /\ UNCHANGED browserVars

(* STEP 1: delete from user_area_mappings where area_id = id; an error is  *)
(* logged.                                                                 *)
PatchDeletesMappings ==
    /\ admin.pc = "unmap"
    /\ \E mappingDeleteError \in BOOLEAN :
          rows' = IF mappingDeleteError THEN rows
                  ELSE [rows EXCEPT !.mappings = {m \in @ : m[2] # admin.id}]
    /\ admin' = [admin EXCEPT !.pc = "find"]
    /\ UNCHANGED browserVars

(* STEP 2: the active users whose primary area is id; an error is logged   *)
(* and the cascade ends there.                                             *)
PatchFindsUsers ==
    /\ admin.pc = "find"
    /\ \E primaryError \in BOOLEAN :
          LET primaryAreaUsers ==
                  {u \in UserIds : rows.users[u].area_id = admin.id /\ rows.users[u].is_active}
          IN admin' = IF primaryError \/ primaryAreaUsers = {} THEN Answer(200)
                      ELSE [admin EXCEPT !.pc = "check", !.found = primaryAreaUsers]
    /\ UNCHANGED <<browserVars, rows>>

(* The loop body for one user: the mappings joined to master_areas; with   *)
(* no data (the error is not read) the user has no other active area.      *)
PatchChecksUser ==
    /\ admin.pc = "check"
    /\ LET u == CHOOSE x \in admin.found : \A y \in admin.found : x <= y
       IN \E failed \in BOOLEAN :
             LET otherMappings == {m \in rows.mappings : m[1] = u}
                 hasOtherActiveAreas ==
                     ~failed /\ \E m \in otherMappings : rows.areas[m[2]]
                 usersToDeactivate ==
                     IF hasOtherActiveAreas THEN admin.marked ELSE admin.marked \cup {u}
             IN admin' = IF admin.found = {u}
                         THEN IF usersToDeactivate = {} THEN Answer(200)
                              ELSE [admin EXCEPT !.pc = "deactivate", !.found = {},
                                                 !.marked = usersToDeactivate]
                         ELSE [admin EXCEPT !.found = @ \ {u},
                                            !.marked = usersToDeactivate]
    /\ UNCHANGED <<browserVars, rows>>

(* update user_profiles set is_active = false where id in (...): an error  *)
(* is logged; then the users are locked in Clerk and the answer is 200.    *)
PatchDeactivates ==
    /\ admin.pc = "deactivate"
    /\ \E userUpdateError \in BOOLEAN :
          rows' = IF userUpdateError THEN rows
                  ELSE [rows EXCEPT !.users =
                           [u \in UserIds |->
                               IF u \in admin.marked THEN [@[u] EXCEPT !.is_active = FALSE]
                               ELSE @[u]]]
    /\ admin' = Answer(200)
    /\ UNCHANGED browserVars

(* The response is sent; the next request can come. *)
PatchResponds ==
    /\ admin.pc = "done"
    /\ admin' = NoRequest
    /\ UNCHANGED <<browserVars, rows>>

NextCascade ==
    \/ PatchReceives
    \/ PatchUpdatesArea
    \/ PatchDeletesMappings
    \/ PatchFindsUsers
    \/ PatchChecksUser
    \/ PatchDeactivates
    \/ PatchResponds

SpecCascade == InitCascade /\ [][NextCascade]_vars

(* ------- SpecView: a mounted useFinishedGoods and the manager's syncs --- *)
(* The manager's effect handlers with one mounted useFinishedGoods: its    *)
(* finishedGoodsSyncComplete listener re-reads the store, and its effect   *)
(* resets its state on sign-out. The overlay's buttons and the hook's      *)
(* manual sync are left to Spec.                                           *)

serverAndPagerVars == <<last, user, hidden, proxy, admin, pager, rows>>

(* The order of the calls inside Promise.all. *)
StoreNames == <<"finished_goods", "categories", "metadata">>

(* getFinishedGoods(), getCategories() or getSyncMetadata() on the stores. *)
ReadStore(d, store) ==
    CASE store = "finished_goods" -> getFinishedGoods(d)
      [] store = "categories" -> getCategories(d)
      [] store = "metadata" -> getSyncMetadata(d)

(* The setState after Promise.all: metadata?.value || null and             *)
(* metadata?.record_count || 0; error is left as it is.                    *)
ShowResults(got) ==
    [view EXCEPT !.finishedGoods = got.finished_goods,
                 !.categories = got.categories,
                 !.lastSyncTime = {m.value : m \in got.metadata},
                 !.recordCount = IF got.metadata = {} THEN 0
                                 ELSE (CHOOSE m \in got.metadata : TRUE).record_count,
                 !.loading = FALSE]

(* The catch of loadDataFromIndexedDB: what was shown stays. *)
ShowFailure == [view EXCEPT !.loading = FALSE, !.error = TRUE]

(* loadDataFromIndexedDB up to its await: each of the three methods either *)
(* creates its read transaction or, with this.db null, calls init().       *)
LoadTask ==
    [Task("load", "load", <<>>) EXCEPT
        !.read = [NoRead EXCEPT !.opens = IF handleOpen THEN 0 ELSE Len(StoreNames),
                                !.txs = IF handleOpen THEN StoreNames ELSE <<>>,
                                !.direct = handleOpen]]

Thrice(u) == [i \in 1..Len(StoreNames) |-> u]

Settled(read) == read.opens = 0 /\ read.txs = <<>>

(* The invocation is over once its three reads are. *)
AfterRead(u, read) ==
    [tasks EXCEPT ![u] = IF Settled(read) THEN IdleTask ELSE [@ EXCEPT !.read = read]]

(* The 500 ms timer of performInitialSync: complete is reported and        *)
(* finishedGoodsSyncComplete is dispatched; the hook's listener runs       *)
(* inside dispatchEvent and calls loadDataFromIndexedDB.                   *)
SyncCompleteDispatched(t, u) ==
    /\ tasks[t].pc = "delay"
    /\ Free(u)
    /\ tasks' = [tasks EXCEPT ![t].pc = "hide", ![t].notified = TRUE, ![u] = LoadTask]
    /\ mgr' = [mgr EXCEPT !.stage = "complete", !.percentage = 100]
    /\ view' = [view EXCEPT !.loading = TRUE, !.error = FALSE]
    /\ IF handleOpen
       THEN /\ txQueue' = txQueue \o Thrice(u)
            /\ UNCHANGED connQueue
       ELSE /\ connQueue' = connQueue \o Thrice(u)
            /\ UNCHANGED txQueue
    /\ UNCHANGED <<storeVars, owner, serverAndPagerVars, isLoaded, isSignedIn, hook, wipeDone>>

(* The 1500 ms timer hides the overlay. *)
OverlayHides(t) ==
    /\ tasks[t].pc = "hide"
    /\ TimerFires(t)

(* The sign-out as the manager's effect and the hook's effect see it: the  *)
(* hook puts its whole state back to the initial one.                      *)
SignOutResets(t) ==
    /\ isLoaded
    /\ isSignedIn
    /\ Free(t)
    /\ isSignedIn' = FALSE
    /\ SignedOutBranch(t)
    /\ hook' = "idle"
    /\ view' = EmptyView
    /\ wipeDone' = NotWiped
    /\ UNCHANGED <<storeVars, owner, serverAndPagerVars, isLoaded>>

LoadOpenPending(u) ==
    /\ connQueue # <<>>
    /\ Head(connQueue) = u
    /\ tasks[u].pc = "load"

(* request.onsuccess of the init() one of the three methods awaits: the   *)
(* method creates its read transaction.                                    *)
LoadOpened(u) ==
    /\ LoadOpenPending(u)
    /\ handleOpen => leaked < MaxLeak
    /\ OpenSucceeds
    /\ connQueue' = Tail(connQueue)
    /\ txQueue' = Append(txQueue, u)
    /\ LET read == tasks[u].read
           store == StoreNames[Len(StoreNames) + 1 - read.opens]
       IN tasks' = [tasks EXCEPT ![u].read = [read EXCEPT !.opens = @ - 1,
                                                          !.txs = Append(@, store)]]
    /\ UNCHANGED <<now, owner, serverAndPagerVars, view, isLoaded, isSignedIn, mgr, hook,
                   wipeDone>>

(* request.onerror of that init(): the method rejects; the first rejection *)
(* rejects Promise.all and runs the catch.                                 *)
LoadOpenFails(u) ==
    /\ LoadOpenPending(u)
    /\ connQueue' = Tail(connQueue)
    /\ LET read == tasks[u].read
       IN /\ tasks' = AfterRead(u, [read EXCEPT !.opens = @ - 1, !.failed = TRUE])
          /\ view' = IF read.failed THEN view ELSE ShowFailure
    /\ UNCHANGED <<storeVars, owner, serverAndPagerVars, isLoaded, isSignedIn, txQueue, mgr,
                   hook, wipeDone>>

LoadReadPending(u) ==
    /\ txQueue # <<>>
    /\ Head(txQueue) = u
    /\ tasks[u].pc = "load"

(* The setState after Promise.all leaves the product list as it was. *)
LoadRead_keepsList(u) ==
    /\ LoadReadPending(u)
    /\ txQueue' = Tail(txQueue)
    /\ LET read == tasks[u].read
           store == Head(read.txs)
           after == [read EXCEPT !.txs = Tail(@), !.got[store] = ReadStore(db, store)]
       IN /\ tasks' = AfterRead(u, after)
          /\ view' = IF Settled(after) /\ ~after.failed
                     THEN [ShowResults(after.got) EXCEPT !.finishedGoods = view.finishedGoods]
                     ELSE view
    /\ UNCHANGED <<storeVars, owner, serverAndPagerVars, isLoaded, isSignedIn, connQueue, mgr,
                   hook, wipeDone>>

(* request.onsuccess of one read; with the last of the three, and none     *)
(* rejected, Promise.all resolves and the state is set.                    *)
LoadRead(u) ==
    /\ LoadReadPending(u)
    /\ txQueue' = Tail(txQueue)
    /\ LET read == tasks[u].read
           store == Head(read.txs)
           after == [read EXCEPT !.txs = Tail(@), !.got[store] = ReadStore(db, store)]
       IN /\ tasks' = AfterRead(u, after)
          /\ view' = IF Settled(after) /\ ~after.failed THEN ShowResults(after.got) ELSE view
    /\ UNCHANGED <<storeVars, owner, serverAndPagerVars, isLoaded, isSignedIn, connQueue, mgr,
                   hook, wipeDone>>

(* request.onerror of one read. *)
LoadReadFails(u) ==
    /\ LoadReadPending(u)
    /\ txQueue' = Tail(txQueue)
    /\ LET read == tasks[u].read
       IN /\ tasks' = AfterRead(u, [read EXCEPT !.txs = Tail(@), !.failed = TRUE])
          /\ view' = IF read.failed THEN view ELSE ShowFailure
    /\ UNCHANGED <<storeVars, owner, serverAndPagerVars, isLoaded, isSignedIn, connQueue, mgr,
                   hook, wipeDone>>

NextView ==
    \/ \E t \in Tasks : ClerkLoads(t)
    \/ \E t \in Tasks : SignIn(t)
    \/ \E t \in Tasks : SignOutResets(t)
    \/ \E t \in Tasks : FetchResolves(t)
    \/ \E t \in Tasks : FetchRejects(t)
    \/ \E t \in Tasks : OpenResolves(t)
    \/ \E t \in Tasks : OpenRejects(t)
    \/ \E t \in Tasks : MetadataRead(t)
    \/ \E t \in Tasks : MetadataReadFails(t)
    \/ \E t \in Tasks : StoreSettles(t)
    \/ \E t, u \in Tasks : SyncCompleteDispatched(t, u)
    \/ \E t \in Tasks : OverlayHides(t)
    \/ \E u \in Tasks : LoadOpened(u)
    \/ \E u \in Tasks : LoadOpenFails(u)
    \/ \E u \in Tasks : LoadRead(u)
    \/ \E u \in Tasks : LoadReadFails(u)
    \/ \E t \in Tasks : ClearResolves(t)
    \/ \E t \in Tasks : ClearRejects(t)
    \/ \E t \in Tasks : ClearHangs(t)
    \/ \E t \in Tasks : DeleteResolves(t)
    \/ \E t \in Tasks : DeleteRejects(t)
    \/ CollectConnection
    \/ Tick

SpecView == InitPage /\ [][NextView]_vars

(* ------------------------ claims on the store -------------------------- *)

Ids(records) == {records[i].id : i \in 1..Len(records)}
Range(records) == {records[i] : i \in 1..Len(records)}
DistinctIds(records) == Cardinality(Ids(records)) = Len(records)

Stored == last.op = "storeFinishedGoods" /\ last.result = "ok"

(* C3: once storeFinishedGoods(L) has resolved, for L with pairwise        *)
(* distinct ids, getFinishedGoods() is exactly the records of L, same ids  *)
(* and same count, with nothing of the prior generation, and the sync      *)
(* metadata's record_count is the length of L.                             *)
C3_ReplaceExact ==
    (Stored /\ DistinctIds(last.records)) =>
        /\ getFinishedGoods(db) = Range(last.records)
        /\ {g.id : g \in getFinishedGoods(db)} = Ids(last.records)
        /\ Cardinality(getFinishedGoods(db)) = Len(last.records)
        /\ getSyncMetadata(db) # {}
        /\ \A m \in getSyncMetadata(db) : m.record_count = Len(last.records)

C3_Witness ==
    /\ Stored
    /\ Len(last.records) = 2
    /\ last.pre.finished_goods # {}
    /\ last.pre.finished_goods \cap db.finished_goods = {}

C7_WipeComplete ==
    /\ (last.op = "clearAllData" /\ last.result = "ok") =>
          /\ getFinishedGoods(db) = {}
          /\ \A c \in CategoryIds : getFinishedGoodsByCategory(db, c) = {}
          /\ getCategories(db) = {}
          /\ getSyncMetadata(db) = {}
    /\ (last.op = "clearAllData" /\ ~last.openFault /\ last.failAt = 0) =>
          last.result = "ok"

C7_Witness ==
    /\ last.op = "clearAllData"
    /\ last.result = "ok"
    /\ last.pre.finished_goods # {}
    /\ last.pre.categories # {}
    /\ last.pre.metadata # {}

(* C8: the categories a sync stores are exactly the distinct catname_value *)
(* ids of its list, one category per id, and each product_count is the     *)
(* number of products of the list with that category id.                   *)
C8_CategoriesDerived ==
    Stored =>
        /\ {c.id : c \in getCategories(db)} =
              {g.catname_value : g \in Range(last.records)}
        /\ \A c1, c2 \in getCategories(db) : c1.id = c2.id => c1 = c2
        /\ \A c \in getCategories(db) :
              c.product_count =
                 Cardinality({i \in 1..Len(last.records) :
                                 last.records[i].catname_value = c.id})

C8_Witness ==
    /\ Stored
    /\ \E c \in getCategories(db) : c.product_count = 2

(* C9: searchFinishedGoods(term) returns exactly the stored products whose *)
(* product_name or product_code contains the term as a substring when case *)
(* is ignored, and leaves the store contents as they were.                 *)
SameLetter(c1, c2) ==
    \/ c1 = c2
    \/ {c1, c2} = {"a", "A"}
    \/ {c1, c2} = {"b", "B"}

ContainsIgnoringCase(s, t) ==
    \E from \in 1..(Len(s) + 1) :
        /\ from + Len(t) - 1 <= Len(s)
        /\ \A k \in 1..Len(t) : SameLetter(s[from + k - 1], t[k])

C9_SearchExact ==
    (last.op = "searchFinishedGoods" /\ last.result = "ok") =>
        /\ last.ret = {g \in db.finished_goods :
                          \/ ContainsIgnoringCase(g.product_name, last.term)
                          \/ ContainsIgnoringCase(g.product_code, last.term)}
        /\ db = last.pre

C9_Witness ==
    /\ last.op = "searchFinishedGoods"
    /\ last.result = "ok"
    /\ last.term = <<"A", "B">>
    /\ last.ret # {}
    /\ last.ret # db.finished_goods

(* C10: init() on a store that is already open (a second init(), or one    *)
(* between reads) meets no error of its own and leaves the stored          *)
(* products, categories and metadata as they were.                         *)
C10_InitKeepsData ==
    (last.op = "init" /\ last.preOpen) =>
        /\ db = last.pre
        /\ ~last.openFault => last.result = "ok"

C10_Witness ==
    /\ last.op = "init"
    /\ last.preOpen
    /\ last.result = "ok"
    /\ db.finished_goods # {}
    /\ db.metadata # {}

(* ----------------------- claims on the lifecycle ----------------------- *)

SignOutRunning == \E t \in Tasks : tasks[t].kind = "signout"

SyncStages == {"sync_open", "fetch", "store_open", "store", "delay", "reload"}

InSync(t) == tasks[t].pc \in SyncStages

InReplace(t) == tasks[t].pc \in {"store_open", "store"}

(* C1: whenever the user is signed out and the sign-out handler has        *)
(* returned after clearAllData or the fallback deleteDatabase succeeded,   *)
(* the store holds no products, no categories and no sync metadata, also   *)
(* when a sync was in flight at the moment of sign-out.                    *)
C1_LogoutDestroysCache ==
    (isLoaded /\ ~isSignedIn /\ ~SignOutRunning /\ wipeDone.how \in {"cleared", "deleted"})
        => db = EmptyDb

(* C2: at most one sync is in its fetching, storing or processing stage,   *)
(* and at most one storeFinishedGoods is in flight, at any time.           *)
C2_OneSyncAtATime ==
    /\ Cardinality({t \in Tasks : InSync(t)}) <= 1
    /\ Cardinality({t \in Tasks : InReplace(t)}) <= 1

SignOutReturns(t) == tasks[t].kind = "signout" /\ tasks'[t].pc = "idle"

(* C5 as stated: whenever the sign-out handler returns, getFinishedGoods() *)
(* is empty.                                                               *)
C5_EmptyOnReturn ==
    [][\A t \in Tasks : SignOutReturns(t) => getFinishedGoods(db') = {}]_vars

(* C5 amended: when the sign-out handler returns, getFinishedGoods() is    *)
(* empty, also after clearAllData failed and deleteDatabase succeeded,     *)
(* unless deleteDatabase failed as well; that failure is swallowed: the    *)
(* handler returns all the same, records no error and leaves the store.    *)
C5_EmptyUnlessFallbackFails ==
    [][\A t \in Tasks :
          /\ SignOutReturns(t) =>
                (DeleteRejects(t) \/ getFinishedGoods(db') = {})
          /\ (DeletePending(t) /\ DeleteRejects(t)) =>
                (tasks'[t] = IdleTask /\ mgr' = mgr /\ db' = db)]_vars

C5_Witness ==
    /\ isLoaded
    /\ ~isSignedIn
    /\ ~SignOutRunning
    /\ wipeDone = [how |-> "deleted", populated |-> TRUE]
    /\ getFinishedGoods(db) = {}

(* C6: when the signed-in handler has read the sync metadata, it starts a  *)
(* sync exactly when the metadata is absent or its timestamp is more than  *)
(* one hour (3600000 ms) older than now; it starts one as well when the    *)
(* metadata cannot be read. Aged 30 minutes: no sync; aged 90 minutes: a   *)
(* sync.                                                                   *)
AgeMs(m) == now * TickMs - m.value

FailureKind(config, erp) ==
    IF ~config.url \/ ~config.token THEN "configuration"
    ELSE CASE erp.kind \in {"timeout", "network", "http"} -> erp.kind
           [] erp.body = "nojson" -> "unparsed"
           [] erp.body = "recordslist" -> "none"
           [] OTHER -> "shape"

FailureKinds == {"configuration", "timeout", "network", "http", "shape"}

(* C11: a fetch that meets one of the five failure kinds fails with an     *)
(* IDempiereAPIError whose message no other kind produces and which has    *)
(* the HTTP status of a non-2xx response; and a fetch returns normally     *)
(* only with a payload whose records is a list.                            *)
C11_TypedFailures ==
    (proxy.pc = "done" /\ (proxy.thrown \/ proxy.status = 200)) =>
        LET kind == FailureKind(proxy.config, proxy.erp)
        IN /\ proxy.result.ok => (kind = "none" /\ proxy.erp.body = "recordslist")
           /\ kind \in FailureKinds =>
                 /\ ~proxy.result.ok
                 /\ kind = "http" => proxy.result.status = proxy.erp.status
                 /\ \A config \in Configs, erp \in ErpOutcomes :
                       FailureKind(config, erp) \in FailureKinds \ {kind} =>
                          fetchFinishedGoodsFromIDempiere(config, erp).text
                             # proxy.result.text

C15_SuperadminOnly ==
    admin.pc # "none" =>
        /\ admin.touched # {} => (admin.userId # "none" /\ admin.role = "superadmin")
        /\ (admin.pc = "done" /\ admin.userId = "none") =>
              (admin.status = 401 /\ admin.touched = {})
        /\ (admin.pc = "done" /\ admin.userId # "none" /\ admin.role # "superadmin") =>
              (admin.status = 403 /\ admin.touched = {})

(* ------------------------ claims on the session ------------------------ *)

Quiet == \A t \in Tasks : tasks[t].pc = "idle"

(* C12: products fetched in one user's session are not in the store while  *)
(* another user is the signed-in user, once the handlers the auth changes  *)
(* started have returned, whatever the sequence of auth changes: a change  *)
(* of user id without a sign-out and a sign-in within the hour included.   *)
C12_UserIsolation ==
    (isSignedIn /\ Quiet /\ getFinishedGoods(db) # {}) => owner = user

BecomesHidden == ~hidden /\ hidden'

WipeStarts == \E t \in Tasks : tasks[t].pc = "idle" /\ tasks'[t].kind = "hidden"

(* C19: as the tab becomes hidden the manager starts clearing the store    *)
(* exactly when the auth phase is signed-out; signed in, or with the       *)
(* identity provider not yet loaded, it starts nothing and the stores stay *)
(* as they are.                                                            *)
C19_HiddenWipeOnlySignedOut ==
    [][BecomesHidden => (WipeStarts <=> (isLoaded /\ ~isSignedIn))]_vars

(* ------------------- claims on the sync's progress --------------------- *)

ManagerRun(t) == tasks[t].kind \in {"signin", "retry"}

(* The stage a run of performInitialSync has reported when it stands at pc *)
StageOf(pc) ==
    CASE pc \in {"sync_open", "fetch"} -> "fetching"
      [] pc \in {"store_open", "store"} -> "storing"
      [] pc = "delay" -> "processing"
      [] pc = "hide" -> "complete"
      [] OTHER -> "null"

Rank(stage) ==
    CASE stage = "fetching" -> 1
      [] stage = "storing" -> 2
      [] stage = "processing" -> 3
      [] stage = "complete" -> 4
      [] OTHER -> 0

Dispatches(t) == ~tasks[t].notified /\ tasks'[t].notified

Completes(t) ==
    \/ tasks[t].pc = "delay" /\ tasks'[t].pc = "hide"
    \/ tasks[t].pc = "reload" /\ tasks'[t].pc = "idle"

Fails(t) ==
    /\ tasks[t].pc \in {"sync_open", "fetch", "store_open", "store"}
    /\ tasks'[t].pc = "idle"

(* C13: every sync that completes, the manager's or the hook's manual one, *)
(* dispatches finishedGoodsSyncComplete, and does so after its store write *)
(* has committed; a sync that fails dispatches nothing.                    *)
C13_CompletionBroadcast ==
    [][\A t \in Tasks :
          /\ Completes(t) => Dispatches(t)
          /\ Dispatches(t) => tasks[t].pc \in {"delay", "reload"}
          /\ Fails(t) => (~tasks[t].notified /\ ~tasks'[t].notified)]_vars

(* C16: within one run of performInitialSync the reported stage starts at  *)
(* fetching and moves one stage forward at a time, fetching, storing,      *)
(* processing, complete; processing is reported once storeFinishedGoods    *)
(* has resolved with the run's records stored, complete only after it; and *)
(* the run fails only from fetching, storing or processing.                *)
C16_StageOrder ==
    [][\A t \in Tasks :
          LET from == Rank(StageOf(tasks[t].pc))
              to == Rank(StageOf(tasks'[t].pc))
          IN (tasks'[t].kind \in {"signin", "retry"} /\ to # from /\ to # 0) =>
                /\ to = from + 1
                /\ mgr'.stage = StageOf(tasks'[t].pc)
                /\ to = 3 =>
                      /\ tasks[t].pc = "store"
                      /\ DistinctIds(tasks[t].data) =>
                            getFinishedGoods(db') = Range(tasks[t].data)
                /\ to = 4 => tasks[t].pc = "delay"]_vars
    /\ [][\A t \in Tasks :
             (ManagerRun(t) /\ tasks[t].pc # "idle" /\ tasks'[t].pc = "idle"
              /\ ~mgr.error /\ mgr'.error) =>
                Rank(StageOf(tasks[t].pc)) \in 1..3]_vars

C16_Witness ==
    \E t \in Tasks :
        /\ ManagerRun(t)
        /\ tasks[t].pc = "hide"
        /\ mgr.stage = "complete"
        /\ getFinishedGoods(db) = Range(tasks[t].data)

RunEnds ==
    \/ \E t \in Tasks : ManagerRun(t) /\ tasks[t].pc # "idle" /\ tasks'[t].pc = "idle"
    \/ isSignedIn /\ ~isSignedIn'
    \/ mgr.error /\ mgr' = IdleMgr

(* C17: the percentage the overlay shows never decreases while a sync is   *)
(* under way; it goes back to 0 only as the sync ends (failure, reset      *)
(* after success, cancel, sign-out), whatever the interleaving of syncs.   *)
C17_MonotonicProgress ==
    [][mgr'.percentage < mgr.percentage => (mgr'.percentage = 0 /\ RunEnds)]_vars

(* C18: an invocation of a sync sends at most one fetch; when its fetch or *)
(* its store step fails it ends there: the failure is recorded, stage and  *)
(* percentage are reset (null, 0) and the step sends no fetch; a fetch is  *)
(* sent only by an invocation that has sent none, and an invocation starts *)
(* only with an auth-state change or with the Retry or Sync button.        *)
C18_SingleAttempt ==
    [][\A t \in Tasks :
          /\ tasks'[t].fetches <= 1
          /\ Fails(t) =>
                /\ tasks'[t] = IdleTask
                /\ IF tasks[t].kind = "hook" THEN hook' = "error"
                   ELSE mgr'.error /\ mgr'.stage = "null" /\ mgr'.percentage = 0
                /\ \A u \in Tasks : tasks'[u].pc = "fetch" => tasks[u].pc = "fetch"
          /\ (tasks'[t].pc = "fetch" /\ tasks[t].pc # "fetch") => tasks[t].fetches = 0
          /\ (tasks[t].pc = "idle" /\ tasks'[t].pc # "idle") =>
                \/ isSignedIn' # isSignedIn
                \/ isLoaded' # isLoaded
                \/ tasks'[t].kind \in {"retry", "hook"}]_vars

C18_Witness ==
    /\ Quiet
    /\ isSignedIn
    /\ mgr = [isInitializing |-> TRUE, error |-> TRUE, stage |-> "null", percentage |-> 0]
    /\ hook = "error"

(* C20: in every state in which the user is signed out the manager's       *)
(* state is idle (overlay hidden, no error, stage null, 0%), also when a   *)
(* sync in flight at sign-out finishes or fails afterwards.                *)
C20_SignedOutIdle ==
    (isLoaded /\ ~isSignedIn) => mgr = IdleMgr

(* ---------------------- claims on the connections ---------------------- *)

(* The connections to the database that are open: the one this.db names    *)
(* and those an earlier init() opened and nothing closed.                  *)
OpenConnections == (IF handleOpen THEN 1 ELSE 0) + leaked

(* C21: after any sequence of init(), reads, storeFinishedGoods,           *)
(* clearAllData, close() and deleteDatabase() at most one connection to    *)
(* the database is open: init() on an open store opens no further one and  *)
(* close() leaves none open.                                               *)
C21_SingleHandle ==
    /\ OpenConnections <= 1
    /\ last.op = "close" => OpenConnections = 0

(* ---------------------- claims on the store's shape -------------------- *)

RECURSIVE SumProductCount(_)
SumProductCount(categories) ==
    IF categories = {} THEN 0
    ELSE LET c == CHOOSE x \in categories : TRUE
         IN c.product_count + SumProductCount(categories \ {c})

SyncStarts(t) ==
    /\ tasks[t].pc \in {"idle", "check_open", "check_meta"}
    /\ tasks'[t].pc \in {"sync_open", "fetch"}

(* C25: a sync invoked while the user is signed out, or before the auth    *)
(* state is known, returns at once: it opens no database, sends no fetch   *)
(* and begins no store write.                                              *)
C25_NoSyncSignedOut ==
    [][\A t \in Tasks : SyncStarts(t) => (isLoaded /\ isSignedIn)]_vars

(* A step of invocation t, from its start to the end of its fetch. *)
FetchStep(t) ==
    \/ SyncStarts(t)
    \/ tasks[t].pc \in {"sync_open", "fetch"} /\ tasks'[t] # tasks[t]

(* C28: a sync that fails in its fetch step has written nothing: from its  *)
(* start to the failure none of its steps changes the products, the        *)
(* categories or the sync metadata, so the stored generation and its       *)
(* timestamp are what they were.                                           *)
C28_FailedFetchKeepsCache ==
    [][\A t \in Tasks : FetchStep(t) => db' = db]_vars

(* A sync over the generation an earlier page load stored has failed: the  *)
(* overlay shows the error and the generation is still stored.             *)
C28_Witness ==
    /\ Quiet
    /\ isSignedIn
    /\ mgr.isInitializing /\ mgr.error
    /\ hook = "idle"
    /\ db = Persisted
    /\ now = MaxTime

(* The sign-in handler t gets the answer of checkIfSyncNeeded. *)
CheckAnswered(t) ==
    /\ tasks[t].kind = "signin"
    /\ tasks[t].pc \in {"check_open", "check_meta"}
    /\ tasks'[t].pc \notin {"check_open", "check_meta"}

(* C29: a sign-in that follows a sign-out whose wipe, or fallback delete,  *)
(* succeeded always starts a sync, however recent the last sync is: the    *)
(* one-hour skip applies only to a sign-in with no successful wipe before  *)
(* it. The sign-in handlers taken are those whose user is still signed in  *)
(* at the answer and in whose session no manual sync has run (hook is      *)
(* idle).                                                                  *)
C29_FreshLoginSyncs ==
    [][\A t \in Tasks :
          (CheckAnswered(t) /\ tasks[t].fresh /\ isSignedIn /\ hook = "idle") =>
              tasks'[t].pc = "sync_open"]_vars

(* ------------------------- claims on termination ----------------------- *)

(* Invocation t awaits a promise that no event will settle: its            *)
(* transaction has ended with an abort event alone, which neither          *)
(* storeFinishedGoods nor clearAllData listens to.                         *)
Hung(t) == tasks[t].pc = "hung"

(* C26: a sync that has started ends in complete or with its error         *)
(* recorded once its fetch has settled and its transaction has ended in    *)
(* success, error or abort: it is never left awaiting storeFinishedGoods   *)
(* with the transaction over.                                              *)
C26_SyncSettles ==
    \A t \in Tasks : tasks[t].kind \in {"signin", "retry", "hook"} => ~Hung(t)

(* The delete request of invocation t is the next on the database and a    *)
(* connection is open that no invocation in flight will close: this.db     *)
(* names it again, and every other invocation has returned or hangs.       *)
DeleteBlocked(t) ==
    /\ DeletePending(t)
    /\ handleOpen
    /\ \A u \in Tasks \ {t} : tasks[u].pc \in {"idle", "hung"}

(* C27: the sign-out handler always returns: clearAllData() settles, and   *)
(* when it fails the fallback deleteDatabase() settles too, whatever       *)
(* connections earlier init() calls have left open.                        *)
C27_SignOutSettles ==
    \A t \in Tasks : tasks[t].kind = "signout" => (~Hung(t) /\ ~DeleteBlocked(t))

(* -------------------------- claims on the pager ------------------------ *)

(* C30: after any calls of goToPage(n), goToNextPage, goToPreviousPage and *)
(* setItemsPerPage(k), k >= 1, and any changes of the data: with at least  *)
(* one page, 1 <= currentPage <= totalPages and                            *)
(* 0 <= startIndex <= endIndex <= totalItems, and paginatedData is         *)
(* data[startIndex..endIndex); after setItemsPerPage the page is 1.        *)
C30_PaginationBounds ==
    /\ totalPages(pager) >= 1 =>
          /\ 1 <= pager.currentPage
          /\ pager.currentPage <= totalPages(pager)
          /\ 0 <= startIndex(pager)
          /\ startIndex(pager) <= endIndex(pager)
          /\ endIndex(pager) <= totalItems(pager)
    /\ Len(paginatedData(pager)) = Max(0, endIndex(pager) - startIndex(pager))
    /\ \A i \in 1..Len(paginatedData(pager)) :
          paginatedData(pager)[i] = pager.data[startIndex(pager) + i]
    /\ pager.op = "setItemsPerPage" => pager.currentPage = 1

(* After a change of the data: the first of two pages, two items on it. *)
C30_Witness ==
    /\ pager.op = "data"
    /\ pager.currentPage = 1
    /\ totalPages(pager) = 2
    /\ Len(paginatedData(pager)) = 2

(* ------------------------- claims on the cascade ----------------------- *)

(* PATCH with isActive = false has answered 200 with its message. *)
Deactivated == admin.pc = "done" /\ admin.status = 200 /\ ~admin.isActive

HasOtherActiveArea(u) ==
    \E m \in rows.mappings : m[1] = u /\ m[2] # admin.id /\ rows.areas[m[2]]

(* C23: when PATCH with isActive = false answers 200, no mapping refers to *)
(* the area and every user whose primary area it is and who has no mapping *)
(* to another active area is inactive, also when a step of the cascade has *)
(* reported an error.                                                      *)
C23_CascadeDone ==
    Deactivated =>
        /\ \A m \in rows.mappings : m[2] # admin.id
        /\ \A u \in UserIds :
              (rows.users[u].area_id = admin.id /\ ~HasOtherActiveArea(u)) =>
                  ~rows.users[u].is_active

(* -------------------------- claims on the view ------------------------- *)

LoadStarts(u) == tasks[u].pc = "idle" /\ tasks'[u].kind = "load"

(* The load in slot u ends, none of its reads has rejected and no error is *)
(* shown.                                                                  *)
LoadEndsWell(u) ==
    /\ tasks[u].pc = "load"
    /\ tasks'[u].pc = "idle"
    /\ ~tasks[u].read.failed
    /\ ~view'.error

(* The first of the load's reads rejects. *)
LoadFails(u) ==
    /\ tasks[u].pc = "load"
    /\ ~tasks[u].read.failed
    /\ tasks'[u].pc = "idle" \/ tasks'[u].read.failed
    /\ ~view.error
    /\ view'.error

(* One read of the load succeeds and the load goes on. *)
LoadReadStep(u) ==
    /\ tasks[u].pc = "load"
    /\ tasks'[u].pc = "load"
    /\ ~tasks'[u].read.failed
    /\ Len(tasks'[u].read.txs) < Len(tasks[u].read.txs)

====
